---------------------------- MODULE Spec2Model ----------------------------
(***************************************************************************)
(* Rayleigh-Benard convection, stream-function / temperature formulation.  *)
(* Model of main.py: the set-up (initial fields, operators, psiElim, the   *)
(* LU factorization of dlOpPsi) and the time-marching loop.                *)
(*                                                                         *)
(* Numbers.  The program computes in floating point.  The model computes   *)
(* exactly, in the prime field of P elements: every rational whose         *)
(* denominator is prime to P has an image there, sums, products and        *)
(* quotients commute with taking images, so an equality that holds in      *)
(* exact arithmetic holds of the images, and a value whose image is not 0  *)
(* is not 0.  Rounding is not modelled by this carrier; the specification  *)
(* Spec treats every linear solve as returning an arbitrary vector, which  *)
(* covers any rounding, and SpecExact returns the exact solution.          *)
(***************************************************************************)
EXTENDS Integers, Sequences, FiniteSets, TLC

\* ----------------------------------------------------------------- bounds
\* Grid rows (config.ny is 20 in main.py; the model runs a small grid).
ny == 4
\* Grid columns (config.nx is 40 in main.py).
nx == 3
\* The loop runs for it in 0..nt (config.nt is 3000 in main.py).
nt == 2
\* Diagnostics are produced every generateEvery iterations (10 in main.py).
generateEvery == 2
\* An arbitrary solve returns a multiple a * (1, 2, ..., nx * ny), a in 0..MaxVal.
MaxVal == 1

\* Number of elements of the field the model computes in (a Mersenne prime).
P == 2^13 - 1

\* ------------------------------------------------------- exact arithmetic
Elem(n) == n % P
Add(a, b) == (a + b) % P
Sub(a, b) == (a - b) % P
Neg(a) == (0 - a) % P
Mul(a, b) == (a * b) % P

RECURSIVE Pow(_, _)
Pow(a, e) ==
    IF e = 0 THEN 1
    ELSE LET h == Pow(a, e \div 2)
             s == Mul(h, h)
         IN  IF e % 2 = 1 THEN Mul(s, a) ELSE s

\* 1/a, for a # 0 (Fermat).
Inv(a) == Pow(a, P - 2)
\* The rational n/d.
Frac(n, d) == Mul(Elem(n), Inv(Elem(d)))

\* ------------------------------------------------- configuration (set-up)
dt == Frac(1, 100)
dy == Frac(1, ny - 1)
dx == Frac(2, ny - 1)
sqrtRa == Elem(7)

\* The flux prescribed on the left and right walls.
tempNeumann == <<0, 0>>

\* Pairs (Tbottom, Ttop) the configuration may hold: the program's (1, 0),
\* its reverse, and the equal pairs at 0, 1/2 and 1.
TempPairs ==
    {<<Elem(1), Elem(0)>>, <<Elem(0), Elem(1)>>, <<Elem(0), Elem(0)>>,
     <<Frac(1, 2), Frac(1, 2)>>, <<Elem(1), Elem(1)>>}

N == nx * ny
Idx == 0 .. (N - 1)

\* A name bound to no array yet.
Undef == <<>>

\* ------------------------------------------------------- layout converter
\* Vector index of grid cell (row i, column j): column-major, y fastest.
VecIndex(i, j) == j * ny + i
RowOf(k) == k % ny
ColOf(k) == k \div ny

fieldToVec(g) == [k \in Idx |-> g[RowOf(k)][ColOf(k)]]
vecToField(v) == [i \in 0 .. (ny - 1) |-> [j \in 0 .. (nx - 1) |-> v[VecIndex(i, j)]]]

\* ----------------------------------------------------------- linear algebra
\* The function f itself, tabulated once instead of recomputed at each use.
Tabulated(f) == IF f = f THEN f ELSE f

RECURSIVE DotTo(_, _, _)
DotTo(row, x, c) ==
    IF c < 0 THEN 0 ELSE Add(DotTo(row, x, c - 1), Mul(row[c], x[c]))

MatVec(M, x) == Tabulated([r \in Idx |-> DotTo(M[r], x, N - 1)])
VecAdd(x, y) == [k \in Idx |-> Add(x[k], y[k])]
VecSub(x, y) == [k \in Idx |-> Sub(x[k], y[k])]
VecScale(a, x) == [k \in Idx |-> Mul(a, x[k])]
ZeroVec == [k \in Idx |-> 0]
Eye == [r \in Idx |-> [c \in Idx |-> IF r = c THEN 1 ELSE 0]]
MatAdd(A, B) == [r \in Idx |-> [c \in Idx |-> Add(A[r][c], B[r][c])]]
MatSub(A, B) == [r \in Idx |-> [c \in Idx |-> Sub(A[r][c], B[r][c])]]
MatScale(a, A) == [r \in Idx |-> [c \in Idx |-> Mul(a, A[r][c])]]
\* diag(d) @ A
DiagMul(d, A) == [r \in Idx |-> [c \in Idx |-> Mul(d[r], A[r][c])]]

Singular == <<>>

MinOf(S) == CHOOSE m \in S : \A o \in S : m <= o

\* Gauss-Jordan elimination of the augmented matrix M (column N holds the
\* right-hand side), from column k on; Singular when a column has no pivot.
RECURSIVE Eliminate(_, _)
Eliminate(M, k) ==
    IF k = N THEN M
    ELSE LET cand == {r \in k .. (N - 1) : M[r][k] # 0}
         IN  IF cand = {} THEN Singular
             ELSE LET p == MinOf(cand)
                      inv == Inv(M[p][k])
                      prow == Tabulated([c \in 0 .. N |-> Mul(M[p][c], inv)])
                      Swapped(r) == IF r = p THEN M[k] ELSE M[r]
                      M2 == Tabulated([r \in Idx |->
                               IF r = k THEN prow
                               ELSE LET row == Swapped(r)
                                    IN  [c \in 0 .. N |->
                                           Sub(row[c], Mul(row[k], prow[c]))]])
                  IN  Eliminate(M2, k + 1)

Augment(A, b) ==
    Tabulated([r \in Idx |-> [c \in 0 .. N |-> IF c = N THEN b[r] ELSE A[r][c]]])

\* Whether the LU factorization of A fails ("Factor is exactly singular").
IsSingular(A) == Eliminate(Augment(A, ZeroVec), 0) = Singular

\* The x with A x = b, for a nonsingular A.
LinSolve(A, b) ==
    LET R == Eliminate(Augment(A, b), 0)
    IN  Tabulated([k \in Idx |-> R[k][N]])


\* ------------------------------------------------------ operator builder
IsBottom(k) == RowOf(k) = 0
IsTop(k) == RowOf(k) = ny - 1
IsLeft(k) == ColOf(k) = 0
IsRight(k) == ColOf(k) = nx - 1
OnEdge(k) == IsBottom(k) \/ IsTop(k) \/ IsLeft(k) \/ IsRight(k)

InvDx2 == Inv(Mul(dx, dx))
InvDy2 == Inv(Mul(dy, dy))
Inv2Dx == Inv(Mul(2, dx))
Inv2Dy == Inv(Mul(2, dy))

\* d/dy without boundary treatment: central difference on interior rows.
dyOp ==
    [r \in Idx |-> [c \in Idx |->
        IF IsBottom(r) \/ IsTop(r) THEN 0
        ELSE IF c = r + 1 THEN Inv2Dy
        ELSE IF c = r - 1 THEN Neg(Inv2Dy)
        ELSE 0]]

\* d/dx for the stream function: central difference on interior columns.
dxOpStream ==
    [r \in Idx |-> [c \in Idx |->
        IF IsLeft(r) \/ IsRight(r) THEN 0
        ELSE IF c = r + ny THEN Inv2Dx
        ELSE IF c = r - ny THEN Neg(Inv2Dx)
        ELSE 0]]

\* The interior-only Laplacian of the stream function: identity rows on the
\* four edges, the 5-point stencil inside with the coupling to edge cells
\* dropped.
dlOpStreamMod ==
    [r \in Idx |-> [c \in Idx |->
        IF OnEdge(r) THEN (IF c = r THEN 1 ELSE 0)
        ELSE IF c = r THEN Neg(Add(Mul(2, InvDx2), Mul(2, InvDy2)))
        ELSE IF OnEdge(c) THEN 0
        ELSE IF c = r + 1 \/ c = r - 1 THEN InvDy2
        ELSE IF c = r + ny \/ c = r - ny THEN InvDx2
        ELSE 0]]

\* Laplacian of the temperature: Dirichlet (identity) rows at the bottom and
\* the top, zero-flux Neumann columns at the left and the right.
dlOpTempMat ==
    [r \in Idx |-> [c \in Idx |->
        IF IsBottom(r) \/ IsTop(r) THEN (IF c = r THEN 1 ELSE 0)
        ELSE IF c = r THEN Neg(Add(Mul(2, InvDx2), Mul(2, InvDy2)))
        ELSE IF c = r + 1 \/ c = r - 1 THEN InvDy2
        ELSE IF IsLeft(r) THEN (IF c = r + ny THEN Mul(2, InvDx2) ELSE 0)
        ELSE IF IsRight(r) THEN (IF c = r - ny THEN Mul(2, InvDx2) ELSE 0)
        ELSE IF c = r + ny \/ c = r - ny THEN InvDx2
        ELSE 0]]

dlOpTempRhs(bcDirArray, bcNeuArray) ==
    [k \in Idx |->
        IF IsBottom(k) THEN bcDirArray[1]
        ELSE IF IsTop(k) THEN bcDirArray[2]
        ELSE IF IsLeft(k) THEN Mul(Mul(2, Inv(dx)), bcNeuArray[1])
        ELSE IF IsRight(k) THEN Neg(Mul(Mul(2, Inv(dx)), bcNeuArray[2]))
        ELSE 0]

\* d/dx of the temperature: central difference inside, the prescribed flux
\* on the left and right columns.
dxOpTempMat ==
    [r \in Idx |-> [c \in Idx |->
        IF IsLeft(r) \/ IsRight(r) THEN 0
        ELSE IF c = r + ny THEN Inv2Dx
        ELSE IF c = r - ny THEN Neg(Inv2Dx)
        ELSE 0]]

dxOpTempRhs(bcNeuArray) ==
    [k \in Idx |->
        IF IsLeft(k) THEN Neg(bcNeuArray[1])
        ELSE IF IsRight(k) THEN Neg(bcNeuArray[2])
        ELSE 0]

\* d/dy of the temperature: central difference inside, Dirichlet (identity)
\* rows at the bottom and the top.
dyOpTempMat ==
    [r \in Idx |-> [c \in Idx |->
        IF IsBottom(r) \/ IsTop(r) THEN (IF c = r THEN 1 ELSE 0)
        ELSE IF c = r + 1 THEN Inv2Dy
        ELSE IF c = r - 1 THEN Neg(Inv2Dy)
        ELSE 0]]

dyOpTempRhs(bcDirArray) ==
    [k \in Idx |->
        IF IsBottom(k) THEN bcDirArray[1]
        ELSE IF IsTop(k) THEN bcDirArray[2]
        ELSE 0]

\* ------------------------------------------------------------------ state
VARIABLES
    Tbottom, Ttop,          \* the Dirichlet temperatures of the configuration
    psiElim,                \* the elimination mask
    dlOpPsi,                \* the Laplacian of the stream-function system
    pc,                     \* position in main.py
    it,                     \* the loop index
    t,                      \* the accumulated times
    Tn, Psin,               \* fields of the old time level
    Tnplus1, Psinplus1,     \* fields of the new time level: the state (T, Psi)
    C, rhsC,                \* the advection-diffusion operator of this step
    factor1, factor2,       \* each factorization, as the matrix it was made of
    rhsT, rhsPsi,           \* the right-hand sides handed to the two solves
    frames,                 \* the iterations whose frame was written
    diagRead,               \* what the last diagnostics block read
    nFactor1, nFactor2,     \* how many factorizations were started
    stepsDone,              \* how many step bodies ran to their end
    itTrace,                \* the values it has taken
    err                     \* the uncaught exception, if any

vars == <<Tbottom, Ttop, psiElim, dlOpPsi, pc, it, t, Tn, Psin, Tnplus1, Psinplus1, C, rhsC,
          factor1, factor2, rhsT, rhsPsi, frames, diagRead, nFactor1,
          nFactor2, stepsDone, itTrace, err>>

tempDirichlet == <<Tbottom, Ttop>>

\* Operators generated at set-up.
dyOpPsi == dyOp
dxOpPsi == dxOpStream
\* What no statement after the set-up assigns.
setup == <<Tbottom, Ttop, psiElim, dlOpPsi>>
dlOpTemp == dlOpTempMat
rhsDlOpTemp == dlOpTempRhs(tempDirichlet, tempNeumann)
dxOpTemp == dxOpTempMat
rhsDxOpTemp == dxOpTempRhs(tempNeumann)
dyOpTemp == dyOpTempMat
rhsDyOpTemp == dyOpTempRhs(tempDirichlet)

\* np.linspace(Tbottom, Ttop, ny)[i]
Linspace(a, b, i) ==
    IF i = 0 THEN a
    ELSE IF i = ny - 1 THEN b
    ELSE Add(a, Mul(Elem(i), Mul(Sub(b, a), Inv(Elem(ny - 1)))))

\* Rows 2:3 and columns int(nx/2 - 1):int(nx/2 + 1) are set to 0.5.
Perturbed(i, j) ==
    /\ 2 <= i /\ i < 3
    /\ (nx - 2) \div 2 <= j /\ j < (nx + 2) \div 2

\* startT with the patch written as 0.25.
startT_OtherPatch ==
    fieldToVec([i \in 0 .. (ny - 1) |-> [j \in 0 .. (nx - 1) |->
        IF Perturbed(i, j) THEN Frac(1, 4) ELSE Linspace(Tbottom, Ttop, i)]])

startT ==
    fieldToVec([i \in 0 .. (ny - 1) |-> [j \in 0 .. (nx - 1) |->
        IF Perturbed(i, j) THEN Frac(1, 2) ELSE Linspace(Tbottom, Ttop, i)]])

startPsi ==
    fieldToVec([i \in 0 .. (ny - 1) |-> [j \in 0 .. (nx - 1) |-> 0]])

\* psiElimDiag without the slice psiElim[ny::ny] = 0.
psiElimDiag_NoBottomRow ==
    LET d0 == [k \in Idx |-> 1]
        d1 == [k \in Idx |-> IF k < ny THEN 0 ELSE d0[k]]
        d2 == [k \in Idx |-> IF k >= N - ny THEN 0 ELSE d1[k]]
    IN  [k \in Idx |-> IF k >= ny - 1 /\ (k - (ny - 1)) % ny = 0 THEN 0 ELSE d2[k]]

\* The diagonal of psiElim, by the four slice assignments in their order.
psiElimDiag ==
    LET d0 == [k \in Idx |-> 1]
        d1 == [k \in Idx |-> IF k < ny THEN 0 ELSE d0[k]]
        d2 == [k \in Idx |-> IF k >= N - ny THEN 0 ELSE d1[k]]
        d3 == [k \in Idx |-> IF k >= ny /\ (k - ny) % ny = 0 THEN 0 ELSE d2[k]]
        d4 == [k \in Idx |-> IF k >= ny - 1 /\ (k - (ny - 1)) % ny = 0 THEN 0 ELSE d3[k]]
    IN  d4

\* sparse.csc_matrix(sparse.diags(psiElim, 0))
PsiEliminator == [r \in Idx |-> [c \in Idx |-> IF r = c THEN psiElimDiag[r] ELSE 0]]

\* ---------------------------------------------------- operator assembler
constructC_C(psi) ==
    LET u == MatVec(dyOpPsi, psi)
        v == VecScale(Neg(1), MatVec(dxOpPsi, psi))
    IN  MatSub(MatAdd(DiagMul(u, dxOpTemp), DiagMul(v, dyOpTemp)), dlOpTemp)

constructC_rhs(psi) ==
    LET u == MatVec(dyOpPsi, psi)
        v == VecScale(Neg(1), MatVec(dxOpPsi, psi))
    IN  [k \in Idx |->
            Sub(Add(Mul(u[k], rhsDxOpTemp[k]), Mul(v[k], rhsDyOpTemp[k])),
                rhsDlOpTemp[k])]

\* ---------------------------------------------------- the loop's formulas
HalfDt == Mul(dt, Inv(2))
\* sparse.eye(nx * ny) + (dt / 2) * C
LhsT(c) == MatAdd(Eye, MatScale(HalfDt, c))
\* dt * rhsC + (sparse.eye(nx * ny) - (dt / 2) * C) @ Tn
RhsT(c, rc, T) == VecAdd(VecScale(dt, rc), MatVec(MatSub(Eye, MatScale(HalfDt, c)), T))
\* - sqrtRa * psiElim @ (dxOpTemp @ Tnplus1 - rhsDxOpTemp)
RhsPsi(T) ==
    MatVec(MatScale(Neg(sqrtRa), psiElim), VecSub(MatVec(dxOpTemp, T), rhsDxOpTemp))

\* DirichletT with the top slice begun at ny instead of ny - 1.
DirichletT_TopSliceOff(T) ==
    LET a == [k \in Idx |-> IF k % ny = 0 THEN Tbottom ELSE T[k]]
    IN  [k \in Idx |-> IF k >= ny /\ (k - ny) % ny = 0 THEN Ttop ELSE a[k]]

\* Tnplus1[0::ny] = Tbottom; Tnplus1[ny - 1::ny] = Ttop
DirichletT(T) ==
    LET a == [k \in Idx |-> IF k % ny = 0 THEN Tbottom ELSE T[k]]
    IN  [k \in Idx |-> IF k >= ny - 1 /\ (k - (ny - 1)) % ny = 0 THEN Ttop ELSE a[k]]

\* DirichletPsi without the block of the last column.
DirichletPsi_NoRightColumn(psi) ==
    LET a == [k \in Idx |-> IF k % ny = 0 THEN 0 ELSE psi[k]]
        b == [k \in Idx |-> IF k >= ny - 1 /\ (k - (ny - 1)) % ny = 0 THEN 0 ELSE a[k]]
    IN  [k \in Idx |-> IF k < ny THEN 0 ELSE b[k]]

\* Psinplus1[0::ny] = 0; [ny - 1::ny] = 0; [0:ny] = 0; [-ny:] = 0
DirichletPsi(psi) ==
    LET a == [k \in Idx |-> IF k % ny = 0 THEN 0 ELSE psi[k]]
        b == [k \in Idx |-> IF k >= ny - 1 /\ (k - (ny - 1)) % ny = 0 THEN 0 ELSE a[k]]
        c == [k \in Idx |-> IF k < ny THEN 0 ELSE b[k]]
    IN  [k \in Idx |-> IF k >= N - ny THEN 0 ELSE c[k]]

\* The vectors an arbitrary solve may return.
SolveResults == {[k \in Idx |-> Elem(a * (k + 1))] : a \in 0 .. MaxVal}

NoErr == [type |-> "none"]
SingularErr == [type |-> "RuntimeError", msg |-> "Factor is exactly singular"]

\* ------------------------------------------------------------------- Init
Init ==
    /\ \E pair \in TempPairs : Tbottom = pair[1] /\ Ttop = pair[2]
    /\ psiElim = PsiEliminator
    /\ dlOpPsi = dlOpStreamMod
    /\ pc = "precond"
    /\ it = -1
    /\ t = <<>>
    /\ Tn = Undef /\ Psin = Undef
    /\ Tnplus1 = Undef /\ Psinplus1 = Undef
    /\ C = Undef /\ rhsC = Undef
    /\ factor1 = Undef /\ factor2 = Undef
    /\ rhsT = Undef /\ rhsPsi = Undef
    /\ frames = <<>>
    /\ diagRead = Undef
    /\ nFactor1 = 0 /\ nFactor2 = 0
    /\ stepsDone = 0
    /\ itTrace = <<>>
    /\ err = NoErr

\* ------------------------------------------------------------ the actions
\* The LU factorization of dlOpPsi, then the initial fields and accumulators.
Precondition ==
    /\ pc = "precond"
    /\ nFactor1' = nFactor1 + 1
    /\ IF IsSingular(dlOpPsi)
       THEN /\ err' = SingularErr
            /\ pc' = "aborted"
            /\ UNCHANGED <<factor1, Tnplus1, Psinplus1>>
       ELSE /\ factor1' = dlOpPsi
            /\ Tnplus1' = startT
            /\ Psinplus1' = startPsi
            /\ pc' = "loop"
            /\ err' = err
    /\ UNCHANGED <<setup, it, t, Tn, Psin, C, rhsC, factor2, rhsT,
                   rhsPsi, frames, diagRead, nFactor2, stepsDone, itTrace>>

\* range(nt) in place of range(nt + 1).
RangeEnd_OneShort == nt

\* range(nt + 1) yields 0 .. RangeEnd - 1.
RangeEnd == nt + 1

\* for it in range(nt + 1): the next value of it, and the time of the step.
LoopNext ==
    /\ pc = "loop"
    /\ it + 1 < RangeEnd
    /\ it' = it + 1
    /\ itTrace' = Append(itTrace, it + 1)
    /\ t' = IF it + 1 = 0 THEN Append(t, dt) ELSE Append(t, Add(t[Len(t)], dt))
    /\ pc' = "diag"
    /\ UNCHANGED <<setup, Tn, Psin, Tnplus1, Psinplus1, C, rhsC,
                   factor1, factor2, rhsT, rhsPsi, frames, diagRead,
                   nFactor1, nFactor2, stepsDone, err>>

\* range(nt + 1) is exhausted.
LoopExit ==
    /\ pc = "loop"
    /\ it + 1 >= RangeEnd
    /\ pc' = "done"
    /\ UNCHANGED <<setup, it, t, Tn, Psin, Tnplus1, Psinplus1, C,
                   rhsC, factor1, factor2, rhsT, rhsPsi, frames, diagRead,
                   nFactor1, nFactor2, stepsDone, itTrace, err>>

\* Diagnostics scaling Psinplus1 in place for the advective flux.
Diagnostics_InPlace ==
    /\ pc = "diag"
    /\ it % generateEvery = 0
    /\ diagRead' = [step |-> it,
                    ux |-> vecToField(MatVec(dyOpPsi, Psinplus1)),
                    uy |-> vecToField(VecScale(Neg(1), MatVec(dxOpPsi, Psinplus1))),
                    dTdy |-> vecToField(VecSub(MatVec(dyOpTemp, Tnplus1), rhsDyOpTemp)),
                    T |-> vecToField(Tnplus1),
                    done |-> stepsDone]
    /\ frames' = Append(frames, it \div generateEvery)
    /\ Psinplus1' = VecScale(sqrtRa, Psinplus1)
    /\ pc' = "reset"
    /\ UNCHANGED <<setup, it, t, Tn, Psin, Tnplus1, C,
                   rhsC, factor1, factor2, rhsT, rhsPsi, nFactor1, nFactor2,
                   stepsDone, itTrace, err>>

\* The diagnostics and plotting block of an iteration with
\* it % generateEvery = 0: speeds from Psinplus1, heat fluxes and the image
\* from Tnplus1, frame number it / generateEvery.
Diagnostics ==
    /\ pc = "diag"
    /\ it % generateEvery = 0
    /\ diagRead' = [step |-> it,
                    ux |-> vecToField(MatVec(dyOpPsi, Psinplus1)),
                    uy |-> vecToField(VecScale(Neg(1), MatVec(dxOpPsi, Psinplus1))),
                    dTdy |-> vecToField(VecSub(MatVec(dyOpTemp, Tnplus1), rhsDyOpTemp)),
                    T |-> vecToField(Tnplus1),
                    done |-> stepsDone]
    /\ frames' = Append(frames, it \div generateEvery)
    /\ pc' = "reset"
    /\ UNCHANGED <<setup, it, t, Tn, Psin, Tnplus1, Psinplus1, C,
                   rhsC, factor1, factor2, rhsT, rhsPsi, nFactor1, nFactor2,
                   stepsDone, itTrace, err>>

\* An iteration whose frame is not generated.
NoDiagnostics ==
    /\ pc = "diag"
    /\ it % generateEvery # 0
    /\ pc' = "reset"
    /\ UNCHANGED <<setup, it, t, Tn, Psin, Tnplus1, Psinplus1, C,
                   rhsC, factor1, factor2, rhsT, rhsPsi, frames, diagRead,
                   nFactor1, nFactor2, stepsDone, itTrace, err>>

\* Tn = Tnplus1; Psin = Psinplus1
ResetTimeLevel ==
    /\ pc = "reset"
    /\ Tn' = Tnplus1
    /\ Psin' = Psinplus1
    /\ pc' = "constructC"
    /\ UNCHANGED <<setup, it, t, Tnplus1, Psinplus1, C, rhsC,
                   factor1, factor2, rhsT, rhsPsi, frames, diagRead,
                   nFactor1, nFactor2, stepsDone, itTrace, err>>

\* C, rhsC = matrices.constructC(..., psi=Psin, ...)
RegenerateC ==
    /\ pc = "constructC"
    /\ C' = constructC_C(Psin)
    /\ rhsC' = constructC_rhs(Psin)
    /\ pc' = "factorT"
    /\ UNCHANGED <<setup, it, t, Tn, Psin, Tnplus1, Psinplus1,
                   factor1, factor2, rhsT, rhsPsi, frames, diagRead,
                   nFactor1, nFactor2, stepsDone, itTrace, err>>

\* FactorizeT keeping the factor2 of the first step.
FactorizeT_Cached(singular) ==
    /\ pc = "factorT"
    /\ nFactor2' = nFactor2 + 1
    /\ IF singular
       THEN /\ err' = SingularErr
            /\ pc' = "aborted"
            /\ factor2' = factor2
       ELSE /\ factor2' = IF factor2 = Undef THEN LhsT(C) ELSE factor2
            /\ pc' = "solveT"
            /\ err' = err
    /\ UNCHANGED <<setup, it, t, Tn, Psin, Tnplus1, Psinplus1, C,
                   rhsC, factor1, rhsT, rhsPsi, frames, diagRead, nFactor1,
                   stepsDone, itTrace>>

\* FactorizeT with the exception caught and the step skipped.
FactorizeT_Swallowed(singular) ==
    /\ pc = "factorT"
    /\ nFactor2' = nFactor2 + 1
    /\ IF singular
       THEN /\ err' = SingularErr
            /\ pc' = "loop"
            /\ factor2' = factor2
       ELSE /\ factor2' = LhsT(C)
            /\ pc' = "solveT"
            /\ err' = err
    /\ UNCHANGED <<setup, it, t, Tn, Psin, Tnplus1, Psinplus1, C,
                   rhsC, factor1, rhsT, rhsPsi, frames, diagRead, nFactor1,
                   stepsDone, itTrace>>

\* factor2 = factorized(eye + (dt / 2) * C): raises when the matrix is
\* singular, and nothing catches it.
FactorizeT(singular) ==
    /\ pc = "factorT"
    /\ nFactor2' = nFactor2 + 1
    /\ IF singular
       THEN /\ err' = SingularErr
            /\ pc' = "aborted"
            /\ factor2' = factor2
       ELSE /\ factor2' = LhsT(C)
            /\ pc' = "solveT"
            /\ err' = err
    /\ UNCHANGED <<setup, it, t, Tn, Psin, Tnplus1, Psinplus1, C,
                   rhsC, factor1, rhsT, rhsPsi, frames, diagRead, nFactor1,
                   stepsDone, itTrace>>

\* Tnplus1 = factor2(dt * rhsC + (eye - (dt / 2) * C) @ Tn), returning x.
SolveT(x) ==
    /\ pc = "solveT"
    /\ rhsT' = RhsT(C, rhsC, Tn)
    /\ Tnplus1' = x
    /\ pc' = "dirT"
    /\ UNCHANGED <<setup, it, t, Tn, Psin, Psinplus1, C, rhsC,
                   factor1, factor2, rhsPsi, frames, diagRead, nFactor1,
                   nFactor2, stepsDone, itTrace, err>>

\* Enforcing Dirichlet on Tnplus1.
EnforceDirichletT ==
    /\ pc = "dirT"
    /\ Tnplus1' = DirichletT(Tnplus1)
    /\ pc' = "solvePsi"
    /\ UNCHANGED <<setup, it, t, Tn, Psin, Psinplus1, C, rhsC,
                   factor1, factor2, rhsT, rhsPsi, frames, diagRead,
                   nFactor1, nFactor2, stepsDone, itTrace, err>>

\* SolvePsi with the right-hand side computed from Tn.
SolvePsi_FromTn(x) ==
    /\ pc = "solvePsi"
    /\ rhsPsi' = RhsPsi(Tn)
    /\ Psinplus1' = x
    /\ pc' = "dirPsi"
    /\ UNCHANGED <<setup, it, t, Tn, Psin, Tnplus1, C, rhsC,
                   factor1, factor2, rhsT, frames, diagRead, nFactor1,
                   nFactor2, stepsDone, itTrace, err>>

\* Psinplus1 = factor1(- sqrtRa * psiElim @ (dxOpTemp @ Tnplus1 - rhsDxOpTemp)),
\* returning x.
SolvePsi(x) ==
    /\ pc = "solvePsi"
    /\ rhsPsi' = RhsPsi(Tnplus1)
    /\ Psinplus1' = x
    /\ pc' = "dirPsi"
    /\ UNCHANGED <<setup, it, t, Tn, Psin, Tnplus1, C, rhsC,
                   factor1, factor2, rhsT, frames, diagRead, nFactor1,
                   nFactor2, stepsDone, itTrace, err>>

\* EnforceDirichletPsi without the overwrites.
EnforceDirichletPsi_Skipped ==
    /\ pc = "dirPsi"
    /\ stepsDone' = stepsDone + 1
    /\ pc' = "loop"
    /\ UNCHANGED <<setup, it, t, Tn, Psin, Tnplus1, Psinplus1, C, rhsC,
                   factor1, factor2, rhsT, rhsPsi, frames, diagRead,
                   nFactor1, nFactor2, itTrace, err>>

\* Enforcing Dirichlet on Psinplus1; the body of the loop ends here.
EnforceDirichletPsi ==
    /\ pc = "dirPsi"
    /\ Psinplus1' = DirichletPsi(Psinplus1)
    /\ stepsDone' = stepsDone + 1
    /\ pc' = "loop"
    /\ UNCHANGED <<setup, it, t, Tn, Psin, Tnplus1, C, rhsC,
                   factor1, factor2, rhsT, rhsPsi, frames, diagRead,
                   nFactor1, nFactor2, itTrace, err>>

\* A solve returns some vector, and a factorization may find its matrix
\* singular: what rounding, or any matrix, can produce.
FactorizeTAny == \E singular \in BOOLEAN : FactorizeT(singular)
SolveTAny == \E x \in SolveResults : SolveT(x)
SolvePsiAny == \E x \in SolveResults : SolvePsi(x)

\* The solves of exact arithmetic.
FactorizeTExact == FactorizeT(IsSingular(LhsT(C)))
SolveTExact == SolveT(LinSolve(factor2, RhsT(C, rhsC, Tn)))
SolvePsiExact == SolvePsi(LinSolve(factor1, RhsPsi(Tnplus1)))

Next ==
    \/ Precondition
    \/ LoopNext
    \/ LoopExit
    \/ Diagnostics
    \/ NoDiagnostics
    \/ ResetTimeLevel
    \/ RegenerateC
    \/ FactorizeTAny
    \/ SolveTAny
    \/ EnforceDirichletT
    \/ SolvePsiAny
    \/ EnforceDirichletPsi

Spec == Init /\ [][Next]_vars

NextExact ==
    \/ Precondition
    \/ LoopNext
    \/ LoopExit
    \/ Diagnostics
    \/ NoDiagnostics
    \/ ResetTimeLevel
    \/ RegenerateC
    \/ FactorizeTExact
    \/ SolveTExact
    \/ EnforceDirichletT
    \/ SolvePsiExact
    \/ EnforceDirichletPsi

SpecExact == Init /\ [][NextExact]_vars

\* ------------------------------------------------------------ properties
\* Between two steps: a step body has run to its end and the next has not
\* yet touched the fields.
AfterStep == stepsDone >= 1 /\ pc \in {"loop", "diag", "reset", "done"}

\* The indices of the bottom and top grid rows, and of the four edges.
BottomIdx == {k \in Idx : k % ny = 0}
TopIdx == {k \in Idx : k % ny = ny - 1}
EdgeIdx == BottomIdx \cup TopIdx \cup {k \in Idx : k < ny} \cup {k \in Idx : k >= N - ny}

\* C1: after every completed time step, whatever the temperature solve
\* returned, T is exactly Tbottom at every index i with i mod ny = 0 and
\* exactly Ttop at every index i with i mod ny = ny - 1.
C1_TemperatureDirichlet ==
    AfterStep =>
        /\ \A k \in BottomIdx : Tnplus1[k] = Tbottom
        /\ \A k \in TopIdx : Tnplus1[k] = Ttop

\* A step has ended whose solve returned values that are neither boundary
\* temperature, with different temperatures at the bottom and the top.
C1_Witness ==
    /\ AfterStep
    /\ Tbottom # Ttop
    /\ \E k \in Idx \ (BottomIdx \cup TopIdx) : Tnplus1[k] \notin {Tbottom, Ttop}
    /\ \A k \in BottomIdx : Tnplus1[k] = Tbottom

\* C2: after every completed time step, whatever the stream-function solve
\* returned, Psi is exactly 0 on the bottom and top rows and on the first
\* and the last ny entries.
C2_StreamFunctionDirichlet ==
    AfterStep => \A k \in EdgeIdx : Psinplus1[k] = 0

\* A step has ended whose stream-function solve returned a non-zero field.
C2_Witness ==
    /\ AfterStep
    /\ \E k \in Idx \ EdgeIdx : Psinplus1[k] # 0
    /\ \A k \in EdgeIdx : Psinplus1[k] = 0

\* C3: psiElim is diagonal with 0 exactly at the edge indices and 1 at every
\* other index, in every state of the run (nothing modifies it); applied to
\* a vector, here each vector of SolveResults and the vector of the
\* stream-function right-hand side, it zeroes exactly the edge entries and
\* leaves the others as they are.
C3_MaskCorrect ==
    /\ \A r \in Idx : \A c \in Idx :
          psiElim[r][c] = IF r = c /\ r \notin EdgeIdx THEN 1 ELSE 0
    /\ \A v \in SolveResults :
          MatVec(psiElim, v) = [k \in Idx |-> IF k \in EdgeIdx THEN 0 ELSE v[k]]
    /\ pc = "dirPsi" =>
          LET v == VecScale(Neg(sqrtRa), VecSub(MatVec(dxOpTemp, Tnplus1), rhsDxOpTemp))
          IN  \A k \in Idx : rhsPsi[k] = IF k \in EdgeIdx THEN 0 ELSE v[k]

\* The mask has been applied in a step, after earlier steps, and left a
\* non-zero entry inside; some vector of SolveResults is non-zero on every
\* edge entry.
C3_Witness ==
    /\ pc = "dirPsi"
    /\ stepsDone >= 1
    /\ \E k \in Idx \ EdgeIdx : rhsPsi[k] # 0
    /\ \A k \in EdgeIdx : rhsPsi[k] = 0
    /\ \E v \in SolveResults : \A k \in EdgeIdx : v[k] # 0

\* C4: the loop index takes the values 0 .. nt once each, in increasing
\* order; each value's step body runs once; the loop ends after nt + 1
\* steps.
C4_StepCount ==
    /\ \A i \in 1 .. Len(itTrace) : itTrace[i] = i - 1
    /\ Len(itTrace) <= nt + 1
    /\ it = Len(itTrace) - 1
    /\ pc \in {"loop", "done"} => stepsDone = Len(itTrace)
    /\ pc \notin {"precond", "loop", "done"} => stepsDone = Len(itTrace) - 1
    /\ pc = "done" => stepsDone = nt + 1 /\ Len(itTrace) = nt + 1

\* The loop has ended.
C4_Witness == pc = "done" /\ stepsDone = nt + 1 /\ itTrace[nt + 1] = nt

\* C5: within every step, C and rhsC are assembled from the previous step's
\* Psi (Psin); the temperature solve is given that C and the previous T
\* (Tn); T has its Dirichlet rows overwritten before the stream-function
\* solve; and the stream-function right-hand side is computed from the new,
\* boundary-enforced T (Tnplus1).
C5_PhaseOrder ==
    /\ pc \in {"constructC", "factorT", "solveT"} =>
          Tn = Tnplus1 /\ Psin = Psinplus1
    /\ pc \in {"factorT", "solveT", "dirT", "solvePsi", "dirPsi"} =>
          C = constructC_C(Psin) /\ rhsC = constructC_rhs(Psin)
    /\ pc \in {"dirT", "solvePsi"} => Psin = Psinplus1
    /\ pc \in {"dirT", "solvePsi", "dirPsi"} => rhsT = RhsT(C, rhsC, Tn)
    /\ pc \in {"solvePsi", "dirPsi"} => Tnplus1 = DirichletT(Tnplus1)
    /\ pc = "dirPsi" => rhsPsi = RhsPsi(Tnplus1)

\* A stream-function solve has been given its right-hand side in a step
\* where the old and the new temperature give different right-hand sides,
\* and the C in use comes from a non-zero Psin.
C5_Witness ==
    /\ pc = "dirPsi"
    /\ stepsDone >= 1
    /\ RhsPsi(Tn) # RhsPsi(Tnplus1)
    /\ Psin # ZeroVec
    /\ C # constructC_C(ZeroVec)

C7_SingularIsFatal ==
    err # NoErr =>
        /\ pc = "aborted"
        /\ stepsDone = it
        /\ nFactor2 = it + 1
        /\ Tnplus1 = Tn /\ Psinplus1 = Psin
        /\ err = SingularErr
        /\ DOMAIN err = {"type", "msg"}

\* The run has been aborted in a step after the first.
C7_Witness ==
    /\ pc = "aborted"
    /\ err = SingularErr
    /\ it >= 1
    /\ Psinplus1 # ZeroVec

\* C7, as claimed: besides being fatal, the failure is reported with the
\* index of the step that met it.
C7_ReportedWithStep ==
    err # NoErr =>
        /\ pc = "aborted"
        /\ stepsDone = it
        /\ Tnplus1 = Tn /\ Psinplus1 = Psin
        /\ "step" \in DOMAIN err
        /\ err.step = it

\* What C8 says of the stream function: every right-hand side computed so
\* far is zero, and Psi is zero after every step.
NoFlow ==
    /\ rhsPsi # Undef => rhsPsi = ZeroVec
    /\ AfterStep => Psinplus1 = ZeroVec

C9_SingleWriter ==
    [][/\ (Tnplus1' # Tnplus1 \/ Psinplus1' # Psinplus1) =>
              pc \in {"precond", "solveT", "dirT", "solvePsi", "dirPsi"}
       /\ pc = "diag" => Tnplus1' = Tnplus1 /\ Psinplus1' = Psinplus1
       /\ frames' # frames =>
              /\ pc = "diag"
              /\ it % generateEvery = 0
              /\ stepsDone = it
              /\ diagRead'.step = it
              /\ diagRead'.T = vecToField(Tnplus1)
              /\ diagRead'.ux = vecToField(MatVec(dyOpPsi, Psinplus1))
              /\ diagRead'.uy = vecToField(VecScale(Neg(1), MatVec(dxOpPsi, Psinplus1)))
      ]_vars

\* A diagnostics block has run after at least one step, on a non-zero Psi.
C9_Witness ==
    /\ pc = "reset"
    /\ Len(frames) >= 2
    /\ diagRead.step = it
    /\ it >= 1
    /\ Psinplus1 # ZeroVec
    /\ diagRead.T = vecToField(Tnplus1)

\* C10: the Dirichlet overwrites of T and of Psi are idempotent, and after
\* any step applying them again changes neither T nor Psi.
C10_EnforcementIdempotent ==
    /\ Tnplus1 # Undef => DirichletT(DirichletT(Tnplus1)) = DirichletT(Tnplus1)
    /\ Psinplus1 # Undef =>
          DirichletPsi(DirichletPsi(Psinplus1)) = DirichletPsi(Psinplus1)
    /\ AfterStep =>
          /\ DirichletT(Tnplus1) = Tnplus1
          /\ DirichletPsi(Psinplus1) = Psinplus1

\* A step has ended whose two solves returned fields that the overwrites
\* changed.
C10_Witness ==
    /\ pc = "loop"
    /\ stepsDone >= 2
    /\ Tbottom # Ttop
    /\ \E k \in Idx \ EdgeIdx : Psinplus1[k] # 0 /\ Tnplus1[k] \notin {Tbottom, Ttop}
    /\ DirichletT(Tnplus1) = Tnplus1

=============================================================================
